---- MODULE Spec2Model ----
(***************************************************************************)
(* The file synchronisation store of the Feishu/Lark sync bot:             *)
(* FileService (file.service.ts) and the pull API in front of it,          *)
(* FileController (file.controller.ts).                                    *)
(*                                                                         *)
(* State: the in-memory collection `files`, the durable JSON file `disk`,  *)
(* the managed blob directory `blobs`, the source of fresh UUIDs           *)
(* `nextKey`, the number of calls served `calls`, the keys of the records  *)
(* addFile has created `created`, the keys whose cleanup has removed a     *)
(* file `cleaned`, and `last`, the outcome of the most recent call as its  *)
(* caller sees it.                                                         *)
(*                                                                         *)
(* FeishuModule lists FileService among its own providers, so the process  *)
(* holds a second FileService over the same data directory: `others` is    *)
(* the in-memory collection of that instance.                              *)
(*                                                                         *)
(* addFile and updateFileStatus are async methods: between their awaits    *)
(* other calls run. `reqs` is the list of the calls started under the      *)
(* interleaved specification SpecConc, each with the await it has reached. *)
(* `downloads` is the list of the download requests started under SpecPull, *)
(* where the transfer of a file takes several steps.                       *)
(*                                                                         *)
(* FeishuService (feishu.service.ts) receives the chat events: `now` is    *)
(* the clock in milliseconds, `processedEvents` the Set of event ids,      *)
(* `timers` the pending setTimeout callbacks that delete from it,          *)
(* `insertedAt` the time at which each id was last added to the Set, and   *)
(* `handlers` the runs of the im.message.receive_v1 handler, one for each  *)
(* event delivered, with what each has done so far; `sendFailed` tells     *)
(* whether a message.create call has thrown so far.                        *)
(***************************************************************************)
EXTENDS Integers, Sequences, FiniteSets, TLC

VARIABLES files, disk, blobs, nextKey, calls, created, cleaned, last,
          others, reqs, downloads,
          now, processedEvents, timers, insertedAt, handlers, sendFailed

\* the state of FileService, of its callers and of the filesystem
storeVars ==
  <<files, disk, blobs, nextKey, calls, created, cleaned, last, others, reqs,
    downloads>>

\* the state of FeishuService
feishuVars ==
  <<now, processedEvents, timers, insertedAt, handlers, sendFailed>>

vars == <<storeVars, feishuVars>>

----------------------------------------------------------------------------
(* Bounds *)

\* number of addFile calls (each draws one fresh UUID)
MaxKeys == 2

\* number of calls served (addFile and the three endpoints together)
MaxCalls == 4

\* number of addFile and updateFileStatus calls started when their steps
\* interleave
MaxReqs == 3

\* number of chat events delivered
MaxDeliveries == 2

\* number of download requests when the transfer takes several steps
MaxDownloads == 2

\* number of steps of the clock
MaxTicks == 3

----------------------------------------------------------------------------
(* enum FileStatus *)

Pending == "PENDING"

Completed == "COMPLETED"

Failed == "FAILED"

Expired == "EXPIRED"

FileStatus == {Pending, Completed, Failed, Expired}

\* a string that is no member of the enum: the request body is not validated
\* at run time, so body.status can be any string
Bogus == "BOGUS"

\* an absent field of the request body, or an empty declared name (falsy)
Missing == ""

\* the values body.status takes
StatusInputs == FileStatus \cup {Bogus, Missing}

----------------------------------------------------------------------------
(* Keys, names and paths *)

\* crypto.randomUUID(): the n-th call returns the n-th of a list of pairwise
\* distinct keys
KeyOf == <<"k1", "k2", "k3", "k4", "k5">>

Keys == {KeyOf[i] : i \in 1..MaxKeys}

\* a key no addFile call ever generates
UnknownKey == "k0"

\* the values body.fileKey and the :fileKey route parameter take
KeyInputs == Keys \cup {UnknownKey, Missing}

\* the originalFileName argument of addFile
DeclaredNames == {"photo.jpg", Missing}

\* FILE_MEDIA_DIR
MediaDir == "_data/file_media"

\* path.join(FILE_MEDIA_DIR, fileName), for plain file names
PathJoin(dir, fileName) == <<dir, fileName>>

\* every path of the managed directory the model can name
Paths == {PathJoin(MediaDir, n) : n \in (DeclaredNames \ {Missing}) \cup Keys}

\* no file at a path
NoBlob == "none"

\* getFilePath's null
NoPath == <<>>

----------------------------------------------------------------------------
(* The durable file *)

\* fs.readFile fails with ENOENT
Absent == [kind |-> "absent", data |-> <<>>]

\* a file a failed write left truncated: JSON.parse throws on it
Torn == [kind |-> "torn", data |-> <<>>]

\* JSON.stringify(this.files, null, 2): the array of records, field by field
Stringify(fs) ==
  [kind |-> "json",
   data |-> [i \in 1..Len(fs) |->
               <<fs[i].fileKey, fs[i].fileName, fs[i].status, fs[i].timestamp>>]]

\* JSON.parse(data) as FileRecord[]
Parse(d) ==
  [i \in 1..Len(d.data) |->
     [fileKey |-> d.data[i][1], fileName |-> d.data[i][2],
      status |-> d.data[i][3], timestamp |-> d.data[i][4]]]

\* outcomes of fs.writeFile: written, failed leaving the file as it was,
\* failed leaving it truncated
WriteOutcomes == {"ok", "failed", "torn"}

----------------------------------------------------------------------------
(* FileService *)

\* loadState that never replaces this.files
LoadStateKeepsMemory(fs, d, readOk) == fs

\* loadState: this.files is replaced only when the read and the parse succeed
LoadState(fs, d, readOk) ==
  IF readOk /\ d.kind = "json" THEN Parse(d) ELSE fs

\* saveState: the error of a failed write is logged and swallowed
SaveState(fs, d, w) ==
  CASE w = "ok" -> Stringify(fs)
    [] w = "failed" -> d
    [] OTHER -> Torn

\* find with the comparison inverted
FindOther(fs, fileKey) ==
  LET I == {i \in 1..Len(fs) : fs[i].fileKey # fileKey}
  IN IF I = {} THEN 0 ELSE CHOOSE i \in I : \A j \in I : i <= j

\* this.files.find((f) => f.fileKey === fileKey): index of the first match, 0
\* when there is none
Find(fs, fileKey) ==
  LET I == {i \in 1..Len(fs) : fs[i].fileKey = fileKey}
  IN IF I = {} THEN 0 ELSE CHOOSE i \in I : \A j \in I : i <= j

\* the filter with the comparison inverted
PendingOfInverted(fs) == SelectSeq(fs, LAMBDA r : r.status # Pending)

\* this.files.filter((file) => file.status === FileStatus.Pending)
PendingOf(fs) == SelectSeq(fs, LAMBDA r : r.status = Pending)

\* getFilePath
GetFilePath(fs, fileKey) ==
  IF Find(fs, fileKey) = 0
  THEN NoPath
  ELSE PathJoin(MediaDir, fs[Find(fs, fileKey)].fileName)

\* addFile: localFileName = originalFileName || localFileKey
LocalFileName(originalFileName, localFileKey) ==
  IF originalFileName = Missing THEN localFileKey ELSE originalFileName

\* Date.now() at the n-th addFile call: time passes between two calls
Now(n) == n

\* addFile: the record built before the move
NewRecord(localFileKey, localFileName, t) ==
  [fileKey |-> localFileKey, fileName |-> localFileName,
   status |-> Pending, timestamp |-> t]

\* fs.rename(source, destination) that succeeds: the destination holds the
\* source's bytes, replacing what was there
Rename(bl, bytes, dest) == [bl EXCEPT ![dest] = bytes]

\* fs.unlink(filePath) that succeeds
Unlink(bl, filePath) == [bl EXCEPT ![filePath] = NoBlob]

\* the status set on every record of the collection
SetStatusOfAll(fs, fileKey, status) ==
  [i \in 1..Len(fs) |-> [fs[i] EXCEPT !.status = status]]

\* updateFileStatus: file.status = status on the record found
SetStatus(fs, fileKey, status) ==
  IF Find(fs, fileKey) = 0
  THEN fs
  ELSE [fs EXCEPT ![Find(fs, fileKey)].status = status]

\* the cleanup forgotten for Completed
CleansUpFailedOnly(status) == status = Failed

\* updateFileStatus: the cleanup runs for the two terminal statuses only
CleansUp(status) == status = Completed \/ status = Failed

\* what the caller of addFile gets: the promise resolves with undefined on
\* both paths, the catch block swallows the error
AddFileOutcome(moveOk) == "resolved"

----------------------------------------------------------------------------
(* FeishuService: the events delivered and the dedup Set *)

\* private readonly EVENT_EXPIRY_MS = 10 * 60 * 1000
EVENT_EXPIRY_MS == 600000

\* the step of the clock: half an expiry window
Quantum == EVENT_EXPIRY_MS \div 2

\* the events the platform delivers, each as often as it likes: an image, a
\* file message whose content has no file_key, a text, and a video in an
\* event that carries no event_id
Inbound ==
  {[event_id |-> "e1", message_type |-> "image", fileKey |-> "img_1"],
   [event_id |-> "e2", message_type |-> "file", fileKey |-> Missing],
   [event_id |-> "e3", message_type |-> "text", fileKey |-> Missing],
   [event_id |-> Missing, message_type |-> "media", fileKey |-> "vid_1"]}

EventIds == {ev.event_id : ev \in Inbound} \ {Missing}

\* no insertion of the id so far
Never == -1

\* a Set in which has(eventId) never finds the id
IsEventProcessedNever(set, eventId) == FALSE

\* this.processedEvents.has(eventId): what isEventProcessed returns
IsEventProcessed(set, eventId) == eventId \in set

\* the Set after isEventProcessed(eventId)
AddEvent(set, eventId) == set \cup {eventId}

\* isEventProcessed that sets a new timer on every call
SetTimeoutAlways(pending, set, eventId, t) ==
  {x \in pending : x.eventId # eventId}
    \cup {[eventId |-> eventId, due |-> t + EVENT_EXPIRY_MS]}

\* the pending timers after isEventProcessed(eventId) called at time t:
\* setTimeout is reached only when the id was not in the Set
SetTimeout(pending, set, eventId, t) ==
  IF IsEventProcessed(set, eventId)
  THEN pending
  ELSE pending \cup {[eventId |-> eventId, due |-> t + EVENT_EXPIRY_MS]}

\* the texts replyToUser and message.create send
AckReply == "received"

SuccessReply == "downloaded"

NotFoundReply == "not found or expired"

FailedReply == "download failed"

ErrorReply == "unexpected error"

TextReply == "please send a photo or a video"

\* outcomes of client.im.v1.messageResource.get
FetchOutcomes == {"ok", "404", "error"}

\* the error text that does not tell a 404 from another failure
ErrorMessageSame(outcome) == FailedReply

\* errorMessage in the catch block of processFileMessage
ErrorMessage(outcome) ==
  IF outcome = "404" THEN NotFoundReply ELSE FailedReply

----------------------------------------------------------------------------
(* The outcome of the last call, as its caller sees it: the operation, its  *)
(* fileKey argument (for addFile, the key it generated), what the service   *)
(* returned, the HTTP response, and the list getPendingFiles returned       *)

NoCall ==
  [op |-> "none", fileKey |-> Missing, ret |-> "none", response |-> "none",
   pending |-> <<>>]

----------------------------------------------------------------------------
(* Initial state: onModuleInit on an empty data directory *)

Init ==
  /\ files = <<>>
  /\ disk = Absent
  /\ blobs = [p \in Paths |-> NoBlob]
  /\ nextKey = 1
  /\ calls = 0
  /\ created = {}
  /\ cleaned = {}
  /\ last = NoCall
  /\ others = <<>>
  /\ reqs = <<>>
  /\ downloads = <<>>
  /\ now = 0
  /\ processedEvents = {}
  /\ timers = {}
  /\ insertedAt = [e \in EventIds |-> Never]
  /\ handlers = <<>>
  /\ sendFailed = FALSE

----------------------------------------------------------------------------
(* Operations. Each takes, besides its arguments, the outcome of every      *)
(* filesystem call it makes.                                                *)

\* one more call is served by the instance behind the controller
Call ==
  /\ calls < MaxCalls
  /\ calls' = calls + 1
  /\ UNCHANGED <<others, reqs, downloads, feishuVars>>

\* FileService.addFile(sourceFilePath, originalFileName); moveOk is the
\* outcome of fs.rename, w that of the fs.writeFile in saveState
AddFileCall(originalFileName, moveOk, w) ==
  LET localFileKey == KeyOf[nextKey]
      localFileName == LocalFileName(originalFileName, localFileKey)
      destinationFilePath == PathJoin(MediaDir, localFileName)
      newRecord == NewRecord(localFileKey, localFileName, Now(nextKey))
  IN /\ nextKey <= MaxKeys
     /\ nextKey' = nextKey + 1
     /\ UNCHANGED cleaned
     /\ IF moveOk
        THEN \* push the record, then saveState
             /\ blobs' = Rename(blobs, localFileKey, destinationFilePath)
             /\ files' = Append(files, newRecord)
             /\ disk' = SaveState(files', disk, w)
             /\ created' = created \cup {localFileKey}
        ELSE \* fs.rename throws: the catch block logs
             UNCHANGED <<blobs, files, disk, created>>
     /\ last' = [NoCall EXCEPT !.op = "addFile",
                               !.fileKey = localFileKey,
                               !.ret = AddFileOutcome(moveOk)]

\* saveState is reached only when the move succeeded
AddFileWrites(moveOk) == IF moveOk THEN WriteOutcomes ELSE {"failed"}

AddFile ==
  /\ Call
  /\ \E originalFileName \in DeclaredNames, moveOk \in BOOLEAN :
       \E w \in AddFileWrites(moveOk) :
         AddFileCall(originalFileName, moveOk, w)

\* FileService.getPendingFiles; readOk is the outcome of fs.readFile
GetPendingFiles(readOk) ==
  /\ files' = LoadState(files, disk, readOk)
  /\ last' = [NoCall EXCEPT !.op = "getFiles",
                            !.response = "Ok",
                            !.pending = PendingOf(files')]
  /\ UNCHANGED <<disk, blobs, nextKey, created, cleaned>>

\* GET sync/files: FileController.getFiles
GetFiles ==
  /\ Call
  /\ \E readOk \in BOOLEAN : GetPendingFiles(readOk)

\* GET sync/download/:fileKey: FileController.downloadFile; streamOk is the
\* outcome of the read stream ('end' or 'error')
DownloadFileCall(fileKey, streamOk) ==
  LET filePath == GetFilePath(files, fileKey)
  IN /\ UNCHANGED <<files, disk, blobs, nextKey, created, cleaned>>
     /\ last' = [NoCall EXCEPT !.op = "download",
                               !.fileKey = fileKey,
                               !.response =
                                 IF filePath = NoPath
                                 THEN "NotFoundException"
                                 ELSE IF blobs[filePath] = NoBlob \/ ~streamOk
                                   THEN "InternalServerErrorException"
                                   ELSE "Ok"]

\* a file is at the blob path of the record with this key
HasFile(fileKey) ==
  /\ GetFilePath(files, fileKey) # NoPath
  /\ blobs[GetFilePath(files, fileKey)] # NoBlob

\* the read stream cannot end normally when there is no file to read
StreamOutcomes(fileKey) == IF HasFile(fileKey) THEN BOOLEAN ELSE {FALSE}

DownloadFile ==
  /\ Call
  /\ \E fileKey \in KeyInputs \ {Missing} :
       \E streamOk \in StreamOutcomes(fileKey) :
         DownloadFileCall(fileKey, streamOk)

\* FileService.updateFileStatus(fileKey, status) on a record that exists:
\* set the status, saveState, then the cleanup; w is the outcome of
\* fs.writeFile, unlinkOk that of fs.unlink, which throws in any case when
\* there is no file at the path
UpdateFileStatus(fileKey, status, w, unlinkOk) ==
  LET filePath == GetFilePath(files, fileKey)
  IN /\ files' = SetStatus(files, fileKey, status)
     /\ disk' = SaveState(files', disk, w)
     /\ IF /\ CleansUp(status)
           /\ filePath # NoPath
           /\ blobs[filePath] # NoBlob
           /\ unlinkOk
        THEN /\ blobs' = Unlink(blobs, filePath)
             /\ cleaned' = cleaned \cup {fileKey}
        ELSE UNCHANGED <<blobs, cleaned>>

\* POST sync/status: FileController.updateStatus
UpdateStatusCall(fileKey, status, w, unlinkOk) ==
  /\ UNCHANGED <<nextKey, created>>
  /\ IF fileKey = Missing \/ status = Missing
     THEN /\ UNCHANGED <<files, disk, blobs, cleaned>>
          /\ last' = [NoCall EXCEPT !.op = "status",
                                    !.fileKey = fileKey,
                                    !.response = "InternalServerErrorException"]
     ELSE IF Find(files, fileKey) = 0
     THEN /\ UNCHANGED <<files, disk, blobs, cleaned>>
          /\ last' = [NoCall EXCEPT !.op = "status",
                                    !.fileKey = fileKey,
                                    !.ret = "false",
                                    !.response = "NotFoundException"]
     ELSE /\ UpdateFileStatus(fileKey, status, w, unlinkOk)
          /\ last' = [NoCall EXCEPT !.op = "status",
                                    !.fileKey = fileKey,
                                    !.ret = "true",
                                    !.response = "Ok"]

\* saveState is reached only when the record was found
StatusWrites(fileKey, status) ==
  IF fileKey # Missing /\ status # Missing /\ Find(files, fileKey) # 0
  THEN WriteOutcomes
  ELSE {"failed"}

\* fs.unlink cannot succeed when there is no file to remove
UnlinkOutcomes(fileKey) == IF HasFile(fileKey) THEN BOOLEAN ELSE {FALSE}

UpdateStatus ==
  /\ Call
  /\ \E fileKey \in KeyInputs, status \in StatusInputs :
       \E w \in StatusWrites(fileKey, status),
          unlinkOk \in UnlinkOutcomes(fileKey) :
         UpdateStatusCall(fileKey, status, w, unlinkOk)

\* the HTTP status code with which the framework answers: that of the
\* exception class the handler throws, 200 when it returns
StatusCode(response) ==
  CASE response = "NotFoundException" -> 404
    [] response = "InternalServerErrorException" -> 500
    [] OTHER -> 200

Next == AddFile \/ GetFiles \/ DownloadFile \/ UpdateStatus

Spec == Init /\ [][Next]_vars

----------------------------------------------------------------------------
(* The second FileService instance, the one FeishuModule provides. It runs  *)
(* the same code on its own collection `others`, over the same durable file *)
(* and the same media directory; its methods are called directly.           *)

\* one more call is served by the second instance
OtherCall ==
  /\ calls < MaxCalls
  /\ calls' = calls + 1
  /\ UNCHANGED <<files, reqs, downloads, feishuVars>>

\* addFile on the second instance
OtherAddFileCall(originalFileName, moveOk, w) ==
  LET localFileKey == KeyOf[nextKey]
      localFileName == LocalFileName(originalFileName, localFileKey)
      destinationFilePath == PathJoin(MediaDir, localFileName)
      newRecord == NewRecord(localFileKey, localFileName, Now(nextKey))
  IN /\ nextKey <= MaxKeys
     /\ nextKey' = nextKey + 1
     /\ UNCHANGED cleaned
     /\ IF moveOk
        THEN /\ blobs' = Rename(blobs, localFileKey, destinationFilePath)
             /\ others' = Append(others, newRecord)
             /\ disk' = SaveState(others', disk, w)
             /\ created' = created \cup {localFileKey}
        ELSE UNCHANGED <<blobs, others, disk, created>>
     /\ last' = [NoCall EXCEPT !.op = "otherAddFile",
                               !.fileKey = localFileKey,
                               !.ret = AddFileOutcome(moveOk)]

OtherAddFile ==
  /\ OtherCall
  /\ \E originalFileName \in DeclaredNames, moveOk \in BOOLEAN :
       \E w \in AddFileWrites(moveOk) :
         OtherAddFileCall(originalFileName, moveOk, w)

\* updateFileStatus on the second instance
OtherUpdateFileStatusCall(fileKey, status, w, unlinkOk) ==
  LET filePath == GetFilePath(others, fileKey)
  IN /\ UNCHANGED <<nextKey, created>>
     /\ IF Find(others, fileKey) = 0
        THEN /\ UNCHANGED <<others, disk, blobs, cleaned>>
             /\ last' = [NoCall EXCEPT !.op = "otherStatus",
                                       !.fileKey = fileKey,
                                       !.ret = "false"]
        ELSE /\ others' = SetStatus(others, fileKey, status)
             /\ disk' = SaveState(others', disk, w)
             /\ IF /\ CleansUp(status)
                   /\ blobs[filePath] # NoBlob
                   /\ unlinkOk
                THEN /\ blobs' = Unlink(blobs, filePath)
                     /\ cleaned' = cleaned \cup {fileKey}
                ELSE UNCHANGED <<blobs, cleaned>>
             /\ last' = [NoCall EXCEPT !.op = "otherStatus",
                                       !.fileKey = fileKey,
                                       !.ret = "true"]

\* the outcomes of the filesystem calls the second instance reaches
OtherWrites(fileKey) ==
  IF Find(others, fileKey) # 0 THEN WriteOutcomes ELSE {"failed"}

OtherUnlinks(fileKey) ==
  IF /\ Find(others, fileKey) # 0
     /\ blobs[GetFilePath(others, fileKey)] # NoBlob
  THEN BOOLEAN
  ELSE {FALSE}

OtherUpdateFileStatus ==
  /\ OtherCall
  /\ \E fileKey \in Keys, status \in FileStatus :
       \E w \in OtherWrites(fileKey), unlinkOk \in OtherUnlinks(fileKey) :
         OtherUpdateFileStatusCall(fileKey, status, w, unlinkOk)

NextShared ==
  \/ AddFile
  \/ GetFiles
  \/ DownloadFile
  \/ UpdateStatus
  \/ OtherAddFile
  \/ OtherUpdateFileStatus

SpecShared == Init /\ [][NextShared]_vars

----------------------------------------------------------------------------
(* FileService with the steps of its async methods interleaved. A call      *)
(* runs from one await to the next in one step: addFile awaits fs.rename,   *)
(* then the fs.writeFile of saveState; updateFileStatus awaits the          *)
(* fs.writeFile of saveState, then fs.unlink. JSON.stringify(this.files) is *)
(* evaluated when fs.writeFile is called, the file changes when the write   *)
(* completes, and the writes of two calls complete in either order.         *)

\* a call that has not reached saveState has no text to write
NoSnap == Absent

\* a call just started
NewReq(op, fileKey, fileName, status, timestamp) ==
  [op |-> op, pc |-> "start", fileKey |-> fileKey, fileName |-> fileName,
   status |-> status, timestamp |-> timestamp, snap |-> NoSnap,
   w |-> "none"]

\* the calls that await something
InFlight == {i \in 1..Len(reqs) : reqs[i].pc # "done"}

ConcFrame == UNCHANGED <<calls, cleaned, last, others, downloads, feishuVars>>

\* addFile up to `await fs.rename`
AddFileBegin(originalFileName) ==
  LET localFileKey == KeyOf[nextKey]
      localFileName == LocalFileName(originalFileName, localFileKey)
  IN /\ Len(reqs) < MaxReqs
     /\ nextKey <= MaxKeys
     /\ nextKey' = nextKey + 1
     /\ reqs' = Append(reqs, [NewReq("addFile", localFileKey, localFileName,
                                     Pending, Now(nextKey))
                                EXCEPT !.pc = "rename"])
     /\ UNCHANGED <<files, disk, blobs, created>>
     /\ ConcFrame

\* fs.rename completes; addFile pushes the record and calls saveState, up
\* to `await fs.writeFile`
AddFileRenamed(i, moveOk) ==
  LET r == reqs[i]
      newRecord == NewRecord(r.fileKey, r.fileName, r.timestamp)
  IN /\ r.pc = "rename"
     /\ IF moveOk
        THEN /\ blobs' = Rename(blobs, r.fileKey,
                                PathJoin(MediaDir, r.fileName))
             /\ files' = Append(files, newRecord)
             /\ created' = created \cup {r.fileKey}
             /\ reqs' = [reqs EXCEPT ![i].pc = "write",
                                     ![i].snap = Stringify(files')]
        ELSE /\ reqs' = [reqs EXCEPT ![i].pc = "done"]
             /\ UNCHANGED <<blobs, files, created>>
     /\ UNCHANGED <<disk, nextKey>>
     /\ ConcFrame

\* updateFileStatus up to the `await fs.writeFile` of saveState, or to its
\* return when no record has the key
UpdateFileStatusBegin(fileKey, status) ==
  /\ Len(reqs) < MaxReqs
  /\ IF Find(files, fileKey) = 0
     THEN /\ reqs' = Append(reqs, [NewReq("updateFileStatus", fileKey,
                                          Missing, status, 0)
                                     EXCEPT !.pc = "done"])
          /\ UNCHANGED files
     ELSE /\ files' = SetStatus(files, fileKey, status)
          /\ reqs' = Append(reqs, [NewReq("updateFileStatus", fileKey,
                                          files[Find(files, fileKey)].fileName,
                                          status, 0)
                                     EXCEPT !.pc = "write",
                                            !.snap = Stringify(files')])
  /\ UNCHANGED <<disk, blobs, nextKey, created>>
  /\ ConcFrame

\* the fs.writeFile of a call completes with outcome w; addFile returns,
\* updateFileStatus goes on to the cleanup
WriteFileDone(i, w) ==
  LET r == reqs[i]
  IN /\ r.pc = "write"
     /\ disk' = CASE w = "ok" -> r.snap
                  [] w = "failed" -> disk
                  [] OTHER -> Torn
     /\ reqs' = [reqs EXCEPT
                   ![i].w = w,
                   ![i].pc = IF r.op = "updateFileStatus" /\ CleansUp(r.status)
                             THEN "unlink"
                             ELSE "done"]
     /\ UNCHANGED <<files, blobs, nextKey, created>>
     /\ ConcFrame

\* the path updateFileStatus reads after saveState: getFilePath(fileKey)
\* on the collection as it is then
UnlinkDone(i, unlinkOk) ==
  LET r == reqs[i]
      filePath == GetFilePath(files, r.fileKey)
  IN /\ r.pc = "unlink"
     /\ reqs' = [reqs EXCEPT ![i].pc = "done"]
     /\ IF filePath # NoPath /\ blobs[filePath] # NoBlob /\ unlinkOk
        THEN blobs' = Unlink(blobs, filePath)
        ELSE UNCHANGED blobs
     /\ UNCHANGED <<files, disk, nextKey, created>>
     /\ ConcFrame

ConcAddFile ==
  \/ \E originalFileName \in DeclaredNames : AddFileBegin(originalFileName)
  \/ \E i \in 1..Len(reqs), moveOk \in BOOLEAN : AddFileRenamed(i, moveOk)

ConcUpdateFileStatus ==
  \/ \E fileKey \in Keys, status \in {Completed, Failed} :
       UpdateFileStatusBegin(fileKey, status)
  \/ \E i \in 1..Len(reqs), unlinkOk \in BOOLEAN : UnlinkDone(i, unlinkOk)

ConcSaveState ==
  \E i \in 1..Len(reqs), w \in WriteOutcomes : WriteFileDone(i, w)

NextConc == ConcAddFile \/ ConcUpdateFileStatus \/ ConcSaveState

SpecConc == Init /\ [][NextConc]_vars

----------------------------------------------------------------------------
(* FileController.downloadFile with the transfer in steps. The handler      *)
(* pipes a read stream of the file into the response and awaits a promise   *)
(* that the stream's 'end' resolves and the stream's 'error' rejects. When  *)
(* the response closes first (the client goes away) or fails, pipe() only   *)
(* unpipes the read stream, which stays paused: it emits neither 'end' nor  *)
(* 'error'.                                                                 *)

PullFrame ==
  UNCHANGED <<files, disk, blobs, nextKey, calls, created, cleaned, last,
              others, reqs, feishuVars>>

\* a download request: the key asked for, the path getFilePath returned,
\* where the handler is and what the request was answered
NewDownload(fileKey, filePath, pc, response) ==
  [fileKey |-> fileKey, filePath |-> filePath, pc |-> pc,
   response |-> response]

\* downloadFile up to the await of the promise, or to the not-found answer
DownloadBegin(fileKey) ==
  LET filePath == GetFilePath(files, fileKey)
  IN /\ Len(downloads) < MaxDownloads
     /\ downloads' = Append(downloads,
          IF filePath = NoPath
          THEN NewDownload(fileKey, filePath, "done", "NotFoundException")
          ELSE NewDownload(fileKey, filePath, "stream", "none"))
     /\ PullFrame

\* the step of download i from the await of the promise
Settle(i, pc, response) ==
  /\ downloads[i].pc = "stream"
  /\ downloads' = [downloads EXCEPT ![i].pc = pc, ![i].response = response]
  /\ PullFrame

\* the read stream emits 'end': the whole file went into the response
StreamEnds(i) ==
  /\ downloads[i].pc = "stream"
  /\ blobs[downloads[i].filePath] # NoBlob
  /\ Settle(i, "done", "Ok")

\* the read stream emits 'error' (no such file, read error): the promise
\* rejects and the catch block throws
StreamErrors(i) == Settle(i, "done", "InternalServerErrorException")

\* the response closes or fails before the end of the file: the read stream
\* is unpiped and nothing settles the promise
ResponseCloses(i) ==
  /\ downloads[i].pc = "stream"
  /\ blobs[downloads[i].filePath] # NoBlob
  /\ Settle(i, "unpiped", "none")

PullDownloadFile ==
  \/ \E fileKey \in KeyInputs \ {Missing} : DownloadBegin(fileKey)
  \/ \E i \in 1..Len(downloads) : StreamEnds(i)
  \/ \E i \in 1..Len(downloads) : StreamErrors(i)
  \/ \E i \in 1..Len(downloads) : ResponseCloses(i)

NextPull == ConcAddFile \/ ConcSaveState \/ PullDownloadFile

SpecPull == Init /\ [][NextPull]_vars

----------------------------------------------------------------------------
(* FeishuService: the im.message.receive_v1 handler, one step from each     *)
(* await to the next, the timers of the dedup Set and the clock. No step    *)
(* touches FileService: the class does not hold one.                        *)

IngestFrame == UNCHANGED storeVars

\* a run of the handler: the event, what isEventProcessed returned, the
\* await it has reached and what it has sent or called so far, in order
NewHandler(ev, dup, pc, effects) ==
  [event |-> ev, dup |-> dup, pc |-> pc, effects |-> effects]

\* the handler from the delivery to its first await
Receive(ev) ==
  LET checked == ev.event_id # Missing
      dup == checked /\ IsEventProcessed(processedEvents, ev.event_id)
      fileBearing == ev.message_type \in {"image", "media", "file"}
  IN /\ Len(handlers) < MaxDeliveries
     /\ IF checked
        THEN /\ processedEvents' = AddEvent(processedEvents, ev.event_id)
             /\ timers' = SetTimeout(timers, processedEvents, ev.event_id, now)
             /\ insertedAt' = IF dup
                              THEN insertedAt
                              ELSE [insertedAt EXCEPT ![ev.event_id] = now]
        ELSE UNCHANGED <<processedEvents, timers, insertedAt>>
     /\ handlers' = Append(handlers,
          IF dup
          THEN \* Ignoring duplicate event
               NewHandler(ev, TRUE, "done", <<>>)
          ELSE IF fileBearing /\ ev.fileKey # Missing
          THEN \* processFileMessage: replyToUser(acknowledgement)
               NewHandler(ev, FALSE, "ack", <<AckReply>>)
          ELSE IF fileBearing
          THEN \* the key is missing: throw, and the catch block replies
               NewHandler(ev, FALSE, "error", <<ErrorReply>>)
          ELSE \* reply for non-file messages
               NewHandler(ev, FALSE, "text", <<TextReply>>))
     /\ UNCHANGED <<now, sendFailed>>
     /\ IngestFrame

\* the step of handler i from pc to pc2, doing these effects
Advance(i, pc, pc2, effects) ==
  /\ handlers[i].pc = pc
  /\ handlers' = [handlers EXCEPT ![i].pc = pc2,
                                  ![i].effects = @ \o effects]
  /\ UNCHANGED <<now, processedEvents, timers, insertedAt>>
  /\ IngestFrame

\* a message.create call has returned (ok) or thrown
Sent(ok) == sendFailed' = (sendFailed \/ ~ok)

\* replyToUser that lets the error of message.create through
ReplyToUserThrows(sendOk) == IF sendOk THEN "returns" ELSE "throws"

\* replyToUser: the error of message.create is caught and logged
ReplyToUser(sendOk) == "returns"

\* replyToUser(acknowledgement) ends; processFileMessage calls
\* messageResource.get. The call is outside the try of processFileMessage:
\* an exception from it would reach the catch block of the handler
AckDone(i, sendOk) ==
  /\ Sent(sendOk)
  /\ IF ReplyToUser(sendOk) = "returns"
     THEN Advance(i, "ack", "fetch", <<"fetch">>)
     ELSE Advance(i, "ack", "error", <<ErrorReply>>)

\* messageResource.get returns or throws
FetchDone(i, outcome) ==
  /\ UNCHANGED sendFailed
  /\ IF outcome = "ok"
     THEN Advance(i, "fetch", "stage", <<"writeFile">>)
     ELSE Advance(i, "fetch", "reply", <<ErrorMessage(outcome)>>)

\* response.writeFile(localFilePath) returns or throws
StageDone(i, ok) ==
  /\ UNCHANGED sendFailed
  /\ IF ok
     THEN Advance(i, "stage", "reply", <<SuccessReply>>)
     ELSE Advance(i, "stage", "reply", <<ErrorMessage("error")>>)

\* the last replyToUser of processFileMessage ends; the handler returns (an
\* exception from it would reach the catch block of the handler)
ReplyDone(i, sendOk) ==
  /\ Sent(sendOk)
  /\ IF ReplyToUser(sendOk) = "returns"
     THEN Advance(i, "reply", "done", <<>>)
     ELSE Advance(i, "reply", "error", <<ErrorReply>>)

\* message.create of the text reply returns, or throws into the catch block
TextDone(i, ok) ==
  /\ Sent(ok)
  /\ IF ok
     THEN Advance(i, "text", "done", <<>>)
     ELSE Advance(i, "text", "error", <<ErrorReply>>)

\* message.create of the catch block returns and the handler returns, or
\* throws and the handler ends with that exception
ErrorDone(i, ok) ==
  /\ Sent(ok)
  /\ IF ok
     THEN Advance(i, "error", "done", <<>>)
     ELSE Advance(i, "error", "rejected", <<>>)

\* a timer callback that leaves the id in the Set
TimerFiresKeepsId(t) ==
  /\ t \in timers
  /\ t.due <= now
  /\ timers' = timers \ {t}
  /\ UNCHANGED <<processedEvents, now, insertedAt, handlers, sendFailed>>
  /\ IngestFrame

\* a setTimeout callback runs: this.processedEvents.delete(eventId)
TimerFires(t) ==
  /\ t \in timers
  /\ t.due <= now
  /\ timers' = timers \ {t}
  /\ processedEvents' = processedEvents \ {t.eventId}
  /\ UNCHANGED <<now, insertedAt, handlers, sendFailed>>
  /\ IngestFrame

\* the clock advances by one step; a timer that is due runs before time
\* goes on (the event loop runs a callback within milliseconds of its due
\* time, far below the step of the clock)
Tick ==
  /\ now + Quantum <= MaxTicks * Quantum
  /\ \A t \in timers : now + Quantum <= t.due
  /\ now' = now + Quantum
  /\ UNCHANGED <<processedEvents, timers, insertedAt, handlers, sendFailed>>
  /\ IngestFrame

ProcessFileMessage ==
  \E i \in 1..Len(handlers) :
    \/ \E sendOk \in BOOLEAN : AckDone(i, sendOk)
    \/ \E outcome \in FetchOutcomes : FetchDone(i, outcome)
    \/ \E ok \in BOOLEAN : StageDone(i, ok)
    \/ \E sendOk \in BOOLEAN : ReplyDone(i, sendOk)

OtherMessage ==
  \E i \in 1..Len(handlers) :
    \/ \E ok \in BOOLEAN : TextDone(i, ok)
    \/ \E ok \in BOOLEAN : ErrorDone(i, ok)

NextIngest ==
  \/ \E ev \in Inbound : Receive(ev)
  \/ ProcessFileMessage
  \/ OtherMessage
  \/ \E t \in timers : TimerFires(t)
  \/ Tick

SpecIngest == Init /\ [][NextIngest]_vars

----------------------------------------------------------------------------
(* Type correctness *)

Records ==
  [fileKey : Keys, fileName : (DeclaredNames \ {Missing}) \cup Keys,
   status : FileStatus \cup {Bogus}, timestamp : 1..MaxKeys]

TypeOK ==
  /\ files \in Seq(Records)
  /\ disk.kind \in {"absent", "json", "torn"}
  /\ \A p \in Paths : blobs[p] \in Keys \cup {NoBlob}
  /\ nextKey \in 1..(MaxKeys + 1)
  /\ calls \in 0..MaxCalls
  /\ created \subseteq Keys
  /\ cleaned \subseteq created
  /\ others \in Seq(Records)
  /\ Len(reqs) <= MaxReqs
  /\ Len(downloads) <= MaxDownloads
  /\ now \in 0..(MaxTicks * Quantum)
  /\ processedEvents \subseteq EventIds
  /\ \A t \in timers : t.eventId \in EventIds
  /\ \A e \in EventIds : insertedAt[e] = Never \/ insertedAt[e] \in 0..now
  /\ Len(handlers) <= MaxDeliveries
  /\ sendFailed \in BOOLEAN

----------------------------------------------------------------------------
(* Vocabulary of the properties *)

\* the collection holds a record with this key
Has(fs, fileKey) == Find(fs, fileKey) # 0

\* the status of the record with this key
StatusOf(fs, fileKey) == fs[Find(fs, fileKey)].status

\* the keys of the records of a list
KeysOf(fs) == {fs[i].fileKey : i \in 1..Len(fs)}

\* the path at which the blob of a record is expected
BlobPath(r) == PathJoin(MediaDir, r.fileName)

\* the two terminal statuses
Terminal == {Completed, Failed}

\* the record with this key is Completed in memory, and in the durable file
\* too when that file can be read
Settled(fs, d, fileKey) ==
  /\ Has(fs, fileKey)
  /\ StatusOf(fs, fileKey) = Completed
  /\ d.kind = "json" =>
       /\ Has(Parse(d), fileKey)
       /\ StatusOf(Parse(d), fileKey) = Completed

\* the step is a status update addressed to this key (every step of
\* UpdateStatusCall is one); tested first, it spares evaluating the calls
\* that cannot match the step
StatusStep(fileKey) == last'.op = "status" /\ last'.fileKey = fileKey

\* the step is an addFile call
AddFileStep == last'.op = "addFile"

\* the step is a getPendingFiles call
GetFilesStep == last'.op = "getFiles"

\* the records the durable file holds: none when it is missing or truncated
DurableRecords(d) == IF d.kind = "json" THEN Parse(d) ELSE <<>>

\* the step is a delivery: a new run of the handler starts
ReceiveStep == Len(handlers') = Len(handlers) + 1

\* the run of the handler the step has started
Started == handlers'[Len(handlers')]

\* the id was added to the Set less than an expiry window ago
InWindow(eventId) ==
  /\ insertedAt[eventId] # Never
  /\ now < insertedAt[eventId] + EVENT_EXPIRY_MS

\* the run handles a file-bearing event (one that carries the key of its
\* resource) that is no duplicate
FileRun(h) ==
  /\ ~h.dup
  /\ h.event.message_type \in {"image", "media", "file"}
  /\ h.event.fileKey # Missing

\* s is the beginning of t
IsPrefix(s, t) == Len(s) <= Len(t) /\ \A j \in 1..Len(s) : s[j] = t[j]

\* what a complete run on a file-bearing event may have done, in order: the
\* acknowledgement, the fetch, and one terminal reply, the success reply
\* only after the file was staged
CompleteRuns ==
  {<<AckReply, "fetch", "writeFile", SuccessReply>>,
   <<AckReply, "fetch", "writeFile", FailedReply>>,
   <<AckReply, "fetch", NotFoundReply>>,
   <<AckReply, "fetch", FailedReply>>}

\* how often a run of the handler has done this
Count(effects, x) == Cardinality({j \in 1..Len(effects) : effects[j] = x})

\* the runs of the handler that have returned after telling the sender
\* that the file was downloaded
Succeeded ==
  {i \in 1..Len(handlers) :
     handlers[i].pc = "done" /\ Count(handlers[i].effects, SuccessReply) > 0}

----------------------------------------------------------------------------
(* C1 .. C10 *)

\* C1: no premature deletion: every record whose status is Pending has a
\* blob on disk at the path formed from the media directory and its fileName.
C1_NoPrematureDeletion ==
  \A i \in 1..Len(files) :
    files[i].status = Pending => blobs[BlobPath(files[i])] # NoBlob

\* C2: exactly one local copy per file: no two distinct records of the store
\* refer to the same blob path.
C2_OneRecordPerBlobPath ==
  \A i, j \in 1..Len(files) :
    i # j => BlobPath(files[i]) # BlobPath(files[j])

\* C3: after an addFile call that succeeds (the move and the persist both
\* succeed), the result of getPendingFiles holds exactly one record that was
\* not in the collection before the call; that record carries the generated
\* key and status Pending, and the bytes moved in are at its blob path.
C3_AddFileAddsOnePending ==
  [][\A n \in DeclaredNames :
       (AddFileStep /\ AddFileCall(n, TRUE, "ok")) =>
         \A readOk \in BOOLEAN :
           LET result == PendingOf(LoadState(files', disk', readOk))
               fresh == {i \in 1..Len(result) :
                           \A j \in 1..Len(files) : files[j] # result[i]}
           IN /\ Cardinality(fresh) = 1
              /\ \A i \in fresh :
                   /\ result[i].fileKey = KeyOf[nextKey]
                   /\ result[i].status = Pending
                   /\ blobs'[BlobPath(result[i])] = KeyOf[nextKey]]_vars

\* C3 witness: addFile has just moved a blob in and persisted the record.
C3_Witness ==
  /\ last.op = "addFile"
  /\ Has(files, last.fileKey)
  /\ StatusOf(files, last.fileKey) = Pending
  /\ disk = Stringify(files)
  /\ blobs[GetFilePath(files, last.fileKey)] = last.fileKey
  /\ Len(files) = 2

C5_TerminalIsFinal ==
  [][\A k \in Keys :
       (Has(files, k) /\ Has(files', k)) =>
         \/ StatusOf(files', k) = StatusOf(files, k)
         \/ /\ StatusOf(files, k) = Pending
            /\ StatusOf(files', k) \in Terminal]_vars

\* C6: updateFileStatus on a key that addFile never created returns
\* not-found for every status, leaves the collection, the durable file and
\* the blob directory unchanged, and the endpoint answers not-found.
C6_UnknownKeyNotFound ==
  [][\A k \in KeyInputs \ {Missing}, s \in StatusInputs \ {Missing},
        w \in WriteOutcomes, u \in BOOLEAN :
       (StatusStep(k) /\ k \notin created /\ UpdateStatusCall(k, s, w, u)) =>
         /\ last'.ret = "false"
         /\ last'.response = "NotFoundException"
         /\ UNCHANGED <<files, disk, blobs>>]_vars

\* C6 witness: a status update for a key never created has been answered
\* not-found by a store that holds records.
C6_Witness ==
  /\ last.op = "status"
  /\ last.fileKey \notin created \cup {Missing}
  /\ last.ret = "false"
  /\ last.response = "NotFoundException"
  /\ files # <<>>
  /\ disk.kind = "json"

\* C7: idempotence: a second updateFileStatus with the terminal status the
\* record already has, made after the cleanup of an earlier call removed the
\* record's file, returns success and is a no-op on the collection and on
\* the blobs, whatever ran in between.
C7_SecondCallIsNoOp ==
  [][\A k \in Keys, s \in Terminal, w \in WriteOutcomes, u \in BOOLEAN :
       (/\ StatusStep(k)
        /\ Has(files, k)
        /\ StatusOf(files, k) = s
        /\ k \in cleaned
        /\ UpdateStatusCall(k, s, w, u)) =>
         /\ last'.ret = "true"
         /\ files' = files
         /\ blobs' = blobs]_vars

\* C8: when the blob move fails, no record is added, the durable file is
\* not rewritten, and what the caller gets differs from what a successful
\* addFile gives.
C8_MoveFailureIsReported ==
  [][\A n \in DeclaredNames, w \in WriteOutcomes :
       (AddFileStep /\ AddFileCall(n, FALSE, w)) =>
         /\ files' = files
         /\ disk' = disk
         /\ last'.ret # AddFileOutcome(TRUE)]_vars

\* C9: a status update whose status is not Completed or Failed is rejected
\* or ignored: it changes no record and no blob.
C9_OtherStatusIgnored ==
  [][\A k \in KeyInputs, s \in StatusInputs \ Terminal,
        w \in WriteOutcomes, u \in BOOLEAN :
       (StatusStep(k) /\ UpdateStatusCall(k, s, w, u)) =>
         (files' = files /\ blobs' = blobs)]_vars

\* C10: Expired is unreachable: no record ever has status Expired.
C10_ExpiredUnreachable ==
  \A i \in 1..Len(files) : files[i].status # Expired

----------------------------------------------------------------------------
(* C11 .. C20 *)

\* C11: records are never physically deleted: once addFile has created the
\* record with key k, a record with key k is in the store in every later
\* state, also after a persist or a reload that failed. Stated on the
\* in-memory collection, where the claim puts the record at least.
C11_RecordsNeverDeleted ==
  \A k \in created : Has(files, k)

\* C12: at-least-once delivery from ingestion to the pull API: every file
\* event that is no duplicate and whose resource fetch succeeds results in a
\* Pending record created through addFile, which getPendingFiles returns.
\* Stated where the handler has returned after its success reply, the last
\* step the program takes for the event.
C12_FetchedFileBecomesPending ==
  Succeeded # {} =>
    \E k \in created :
      \A readOk \in BOOLEAN :
        k \in KeysOf(PendingOf(LoadState(files, disk, readOk)))

\* C13: the first isEventProcessed call with an id adds it to the Set and
\* returns false; every later call with that id made before the expiry
\* window has elapsed returns true.
C13_FirstFalseThenTrue ==
  [][\A ev \in Inbound :
       (ReceiveStep /\ ev.event_id # Missing /\ Receive(ev)) =>
         /\ insertedAt[ev.event_id] = Never =>
              /\ Started.dup = FALSE
              /\ ev.event_id \in processedEvents'
         /\ InWindow(ev.event_id) => Started.dup = TRUE]_vars

\* C13 witness: an event was delivered, and delivered again within the
\* window; the second run of the handler was told it is a duplicate.
C13_Witness ==
  \E i, j \in 1..Len(handlers) :
    /\ i < j
    /\ handlers[i].event.event_id # Missing
    /\ handlers[j].event = handlers[i].event
    /\ ~handlers[i].dup
    /\ handlers[j].dup
    /\ now > 0

\* C14: an entry of the Set is deleted exactly one expiry window after the
\* call that added it, not sooner and not later; no step in between, be it a
\* duplicate call or a step of the processing whatever its outcome, changes
\* the entry or its timer; and the first call with the id after the deletion
\* returns false and starts a new window.
C14_EvictedAfterOneWindow ==
  [][/\ \A e \in EventIds :
          /\ (e \in processedEvents /\ e \notin processedEvents') =>
               now = insertedAt[e] + EVENT_EXPIRY_MS
          /\ e \in processedEvents' =>
               now' <= insertedAt'[e] + EVENT_EXPIRY_MS
          /\ (e \in processedEvents /\ e \in processedEvents') =>
               /\ insertedAt'[e] = insertedAt[e]
               /\ {t \in timers' : t.eventId = e}
                    = {t \in timers : t.eventId = e}
     /\ \A ev \in Inbound :
          (/\ ReceiveStep
           /\ ev.event_id # Missing
           /\ insertedAt[ev.event_id] # Never
           /\ ev.event_id \notin processedEvents
           /\ Receive(ev)) =>
            /\ Started.dup = FALSE
            /\ ev.event_id \in processedEvents'
            /\ insertedAt'[ev.event_id] = now
            /\ [eventId |-> ev.event_id, due |-> now + EVENT_EXPIRY_MS]
                 \in timers']_vars

\* C14 witness: an id that was added, then seen again as a duplicate later
\* in the window, has just been deleted, one window after it was added.
C14_Witness ==
  \E i, j \in 1..Len(handlers) :
    LET e == handlers[i].event.event_id
    IN /\ i < j
       /\ e # Missing
       /\ handlers[j].event = handlers[i].event
       /\ ~handlers[i].dup
       /\ handlers[j].dup
       /\ e \notin processedEvents
       /\ insertedAt[e] > 0
       /\ now = insertedAt[e] + EVENT_EXPIRY_MS

\* C15: when the same event id is delivered twice within the expiry window,
\* the pipeline performs its side effects (acknowledgement, resource fetch,
\* record creation, reply) exactly once and the duplicate delivery performs
\* none; delivered again after the window has elapsed, they are performed
\* again.
C15_SideEffectsOncePerWindow ==
  [][/\ \A ev \in Inbound :
          (ReceiveStep /\ ev.event_id # Missing /\ Receive(ev)) =>
            /\ InWindow(ev.event_id) =>
                 /\ Started.dup
                 /\ Started.pc = "done"
                 /\ Started.effects = <<>>
            /\ (/\ insertedAt[ev.event_id] # Never
                /\ now > insertedAt[ev.event_id] + EVENT_EXPIRY_MS) =>
                 /\ ~Started.dup
                 /\ Started.effects # <<>>
     /\ \A i \in Succeeded' :
          /\ Count(handlers'[i].effects, AckReply) = 1
          /\ Count(handlers'[i].effects, "fetch") = 1
          /\ Count(handlers'[i].effects, SuccessReply) = 1
          /\ Len(handlers'[i].effects) = 4
     /\ Cardinality(created') = Cardinality(Succeeded')]_vars

\* C16: a download for a key whose record exists but whose blob was removed
\* by the cleanup of a Completed or Failed update is answered not-found, as
\* a download for an unknown key is.
C16_CleanedBlobIsNotFound ==
  (/\ last.op = "download"
   /\ last.fileKey \in cleaned
   /\ Has(files, last.fileKey)
   /\ StatusOf(files, last.fileKey) \in Terminal
   /\ ~HasFile(last.fileKey)) =>
    last.response = "NotFoundException"

\* C17: a status update whose body lacks fileKey or status is answered with
\* a client error (a 4xx code) that is not the not-found error; the store is
\* not touched and updateFileStatus is not called.
C17_MissingFieldIsClientError ==
  [][\A k \in KeyInputs, s \in StatusInputs,
        w \in WriteOutcomes, u \in BOOLEAN :
       (/\ StatusStep(k)
        /\ k = Missing \/ s = Missing
        /\ UpdateStatusCall(k, s, w, u)) =>
         /\ StatusCode(last'.response) \in 400..499
         /\ last'.response # "NotFoundException"
         /\ last'.ret = NoCall.ret
         /\ UNCHANGED <<files, disk, blobs>>]_vars

C19_NoLostUpdate ==
  (/\ reqs # <<>>
   /\ InFlight = {}
   /\ \A i \in 1..Len(reqs) : reqs[i].w \in {"ok", "none"}) =>
    DurableRecords(disk) = files

\* C20: when the external fetch fails, no FileRecord is created, the store
\* is unchanged, and the reply sent to the sender is a failure reply whose
\* wording for a 404 (not found or expired) differs from the wording for
\* every other failure; the handler then returns without staging a file.
C20_FetchFailureReply ==
  [][\A i \in 1..Len(handlers), outcome \in FetchOutcomes \ {"ok"} :
       (handlers[i].pc = "fetch" /\ FetchDone(i, outcome)) =>
         LET reply == handlers'[i].effects[Len(handlers'[i].effects)]
         IN /\ UNCHANGED <<files, disk, blobs, created>>
            /\ reply \in {NotFoundReply, FailedReply}
            /\ reply = NotFoundReply <=> outcome = "404"
            /\ NotFoundReply # FailedReply
            /\ handlers'[i].pc = "reply"
            /\ Count(handlers'[i].effects, "writeFile") = 0]_vars

\* C20 witness: one handler has returned after the not-found reply, another
\* after the reply for any other fetch failure.
C20_Witness ==
  \E i, j \in 1..Len(handlers) :
    /\ handlers[i].pc = "done"
    /\ handlers[i].effects = <<AckReply, "fetch", NotFoundReply>>
    /\ handlers[j].pc = "done"
    /\ handlers[j].effects = <<AckReply, "fetch", FailedReply>>

----------------------------------------------------------------------------
(* C21 .. C27 *)

C22_RewriteAfterBlobOperation ==
  \A i \in 1..Len(reqs) :
    reqs[i].pc \in {"rename", "unlink"} =>
      /\ reqs[i].snap = NoSnap
      /\ reqs[i].w = "none"

\* C23: when the blob deletion inside updateFileStatus fails, the status
\* change is not rolled back: the record has the new terminal status in
\* memory and in the durable file, and updateFileStatus returns success.
C23_UnlinkFailureKeepsStatus ==
  [][\A k \in Keys, s \in Terminal, w \in WriteOutcomes :
       (/\ StatusStep(k)
        /\ HasFile(k)
        /\ UpdateStatusCall(k, s, w, FALSE)) =>
         /\ last'.ret = "true"
         /\ blobs' = blobs
         /\ StatusOf(files', k) = s
         /\ Has(DurableRecords(disk'), k)
         /\ StatusOf(DurableRecords(disk'), k) = s]_vars

\* C24: whenever a mutating operation (addFile, or updateFileStatus on a key
\* that exists) has returned, the durable file holds exactly the in-memory
\* collection: no such operation reports success while the durable file
\* still holds an older collection. Stated where calls do not overlap.
C24_DurableIsMemoryAfterMutation ==
  (\/ last.op = "addFile" /\ last.fileKey \in created
   \/ last.op = "status" /\ last.ret = "true") =>
    DurableRecords(disk) = files /\ disk.kind = "json"

\* C25: frame: updateFileStatus changes only the status field of the record
\* it addresses: the fileKey, fileName and timestamp of every record and the
\* status of every other record are as before, and no record is added or
\* removed. The download endpoint (and getFilePath in it) changes no record,
\* no blob and not the durable file, whether the transfer ends or fails, so
\* a Pending record whose download failed is still Pending with its blob in
\* place. A step is a status update (a download) for the key last'.fileKey
\* exactly when last'.op says so.
C25_Frame ==
  [][/\ last'.op = "status" =>
          /\ Len(files') = Len(files)
          /\ \A i \in 1..Len(files) :
               /\ files'[i].fileKey = files[i].fileKey
               /\ files'[i].fileName = files[i].fileName
               /\ files'[i].timestamp = files[i].timestamp
               /\ files[i].fileKey # last'.fileKey =>
                    files'[i].status = files[i].status
     /\ last'.op = "download" =>
          /\ UNCHANGED <<files, disk, blobs>>
          /\ \A i \in 1..Len(files) :
               (/\ files[i].fileKey = last'.fileKey
                /\ files[i].status = Pending) =>
                 /\ files'[i].status = Pending
                 /\ blobs'[BlobPath(files'[i])]
                      = blobs[BlobPath(files[i])]]_vars

\* C25 witness: a status update has just changed one of two records and
\* left the other one Pending; a download of that other record would find
\* its blob.
C25_Witness ==
  /\ last.op = "status"
  /\ last.ret = "true"
  /\ Len(files) = 2
  /\ \E i, j \in 1..Len(files) :
       /\ files[i].fileKey = last.fileKey
       /\ files[i].status \in Terminal
       /\ files[j].fileKey # last.fileKey
       /\ files[j].status = Pending
       /\ HasFile(files[j].fileKey)

\* C26: every download request finishes, and when the transfer to the
\* puller breaks the handler ends with a failure: a download that has not
\* ended is one whose promise the read stream can still settle, and a
\* download that has ended was answered.
C26_DownloadEnds ==
  \A i \in 1..Len(downloads) :
    IF downloads[i].pc = "done"
    THEN downloads[i].response # "none"
    ELSE ENABLED StreamErrors(i)

\* the timers that will delete the id
TimersOf(eventId) == {t \in timers : t.eventId = eventId}

\* C27 as stated: every id in the Set was added less than one expiry window
\* ago and has exactly one pending timer.
C27_Original ==
  \A e \in processedEvents :
    /\ InWindow(e)
    /\ Cardinality(TimersOf(e)) = 1

\* C27: every id in the Set was added at most one expiry window ago (it is
\* still there at the instant the window has elapsed, until its timer has
\* run) and has exactly one pending timer, due one window after the id was
\* added; there is no timer for an id that is not in the Set, so the Set and
\* the timers hold no more than the ids first seen in the current window.
C27_DedupMemoryBound ==
  /\ \A e \in processedEvents :
       /\ insertedAt[e] # Never
       /\ now <= insertedAt[e] + EVENT_EXPIRY_MS
       /\ TimersOf(e) =
            {[eventId |-> e, due |-> insertedAt[e] + EVENT_EXPIRY_MS]}
  /\ \A t \in timers : t.eventId \in processedEvents
  /\ Cardinality(processedEvents) <=
       Cardinality({i \in 1..Len(handlers) :
                      /\ ~handlers[i].dup
                      /\ handlers[i].event.event_id # Missing})

\* C27 witness: an id seen more than a window ago has left the Set, and the
\* Set holds an id seen after it, with its one timer.
C27_Witness ==
  \E e1, e2 \in EventIds :
    /\ e1 \notin processedEvents
    /\ insertedAt[e1] # Never
    /\ now >= insertedAt[e1] + EVENT_EXPIRY_MS
    /\ e2 \in processedEvents
    /\ insertedAt[e2] > insertedAt[e1]
    /\ Cardinality(TimersOf(e2)) = 1
    /\ Cardinality(timers) = 1

====
